---- MODULE Spec2Model ----
(***************************************************************************)
(* Model of hardware_drivers/navigator_kill_board/nodes/driver_node.py:    *)
(* the KillInterface node that bridges ROS and the kill/status board over  *)
(* a one-byte serial protocol.                                             *)
(*                                                                         *)
(* Threads: "poll" is the thread that runs KillInterface.__init__ and its  *)
(* while loop; "alarm" is the subscriber thread that runs alarm_kill_cb.   *)
(* The /keep_alive and /wrench/current callbacks are single assignments    *)
(* and are modelled as atomic actions.  The board is an environment that   *)
(* puts bytes into the serial input buffer.                                *)
(*                                                                         *)
(* Python strings are sequences of byte values: '' is <<>>, '\x45' is      *)
(* <<69>>, and None (where a string or message is expected) is <<>>.       *)
(***************************************************************************)
EXTENDS Integers, Sequences, FiniteSets, TLC

\* ------------------------------------------------------------------ bounds
\* Capacity of the serial input buffer that the board may fill.
MaxIn == 1
\* Last instant of the modelled clock (rospy.Time.now() ranges over 0..MaxTime).
MaxTime == 2

\* Capacity of the serial input buffer where the order of pending bytes matters.
MaxQueue == 2

\* --------------------------------------------------------- program constants
\* self.timeout = rospy.Duration(1)
timeout == 1

\* rospy.init_node("kill_interface"): the value of rospy.get_name()
NodeName == "kill_interface"
\* Any other node on the alarm bus.
OtherNode == "other_node"

\* ab.add_alarm("hw_kill", ...): the alarm that set_kill / set_unkill drive
kill_alarm == "hw_kill"

Sources == {"overall", "PF", "PA", "SF", "SA", "computer", "remote"}

\* true_kill with the key of 'remote' mistyped as '\x1b'
true_killTypo ==
    (16 :> "overall") @@ (18 :> "PF") @@ (20 :> "PA") @@ (22 :> "SF") @@
    (24 :> "SA") @@ (27 :> "remote") @@ (28 :> "computer")

\* self.true_kill and self.false_kill: byte value -> source
true_kill ==
    (16 :> "overall") @@ (18 :> "PF") @@ (20 :> "PA") @@ (22 :> "SF") @@
    (24 :> "SA") @@ (26 :> "remote") @@ (28 :> "computer")

false_kill ==
    (17 :> "overall") @@ (19 :> "PF") @@ (21 :> "PA") @@ (23 :> "SF") @@
    (25 :> "SA") @@ (27 :> "remote") @@ (29 :> "computer")

\* Every byte the board is taken to send: the fourteen status bytes, the
\* acknowledgements 0x30, 0x50, 0x51, 0x52 and the unassigned byte 0x99.
AllBytes == (DOMAIN true_kill) \cup (DOMAIN false_kill) \cup {48, 80, 81, 82, 153}

\* The bytes the board sends when the callbacks run beside the poll loop:
\* PF set/cleared, computer set, and the acknowledgement 0x51.
BoardBytes == {18, 19, 28, 81}

\* Every value taken to be published on /wrench/current.
AllWrenchers == {"", "autonomous", "keyboard", "rc", "noop", "station_hold"}

\* The values published when the callbacks run beside the poll loop.
Wrenchers == {"", "autonomous"}

Threads == {"poll", "alarm"}

VARIABLES
    kill_status,        \* self.kill_status
    killed,             \* self.killed
    network_msg,        \* self.network_msg: <<>> (None) or <<stamp>>
    current_wrencher,   \* self.current_wrencher
    lock,               \* the module lock: "free" or the thread holding it
    pc,                 \* position of each thread
    req,                \* arguments and return value of each thread's request call
    ser_in,             \* serial input buffer (bytes sent by the board, unread)
    wrote,              \* bytes each thread wrote with ser.write in its current cycle / callback
    flushes,            \* whether flushInput/flushOutput ran in the current cycle
    killstatus,         \* get_status's local KillStatus message: <<>> outside get_status
    bus,                \* calls made on the alarm bus in the current cycle: <<alarm name, call>>
    hw_kill,            \* state of the hw_kill alarm on the alarm bus
    now,                \* rospy.Time.now()
    stale,              \* result of network_kill() in the current cycle
    alarm,              \* the alarm handled by alarm_kill_cb: <<>> or <<[node_name, clear]>>
    resp                \* check_buffer's local resp: the string read by self.ser.read(1)

vars == <<kill_status, killed, network_msg, current_wrencher, lock, pc, req,
          ser_in, wrote, flushes, killstatus, bus, hw_kill, now, stale, alarm, resp>>

\* ------------------------------------------------------------ pure functions

\* get_status, lines 159-166: copy of kill_status into a KillStatus message
Snapshot(ks) == [overall |-> ks["overall"], pf |-> ks["PF"], pa |-> ks["PA"],
                 sf |-> ks["SF"], sa |-> ks["SA"], remote |-> ks["remote"],
                 computer |-> ks["computer"]]

\* AnyKill with the computer kill counted among the kill options
AnyKillWithComputer(m) == m.pf \/ m.pa \/ m.sf \/ m.sa \/ m.remote \/ m.computer

\* AnyKill with all() in place of any()
AnyKillAll(m) == m.pf /\ m.pa /\ m.sf /\ m.sa /\ m.remote

\* get_status, line 171: any([pf, pa, sf, sa, remote])
AnyKill(m) == m.pf \/ m.pa \/ m.sf \/ m.sa \/ m.remote

\* network_kill with the comparison >= in place of >
network_killInclusive(t, msg) ==
    IF msg = <<>> THEN FALSE ELSE (t - msg[1]) >= timeout

\* network_kill
network_kill(t, msg) ==
    IF msg = <<>> THEN FALSE ELSE (t - msg[1]) > timeout

\* to_hex: ord(arg) raises unless arg has length 1; then both buffers are flushed
to_hex_flushes(arg) == Len(arg) # 1

\* apply_resp with a final else branch that resets every entry
apply_respUnknownClears(ks, r) ==
    IF Len(r) = 1 /\ r[1] \in DOMAIN true_kill
    THEN [ks EXCEPT ![true_kill[r[1]]] = TRUE]
    ELSE IF Len(r) = 1 /\ r[1] \in DOMAIN false_kill
         THEN [ks EXCEPT ![false_kill[r[1]]] = FALSE]
         ELSE [s \in DOMAIN ks |-> FALSE]

\* apply_resp with the set-false branch storing True
apply_respFalseSetsTrue(ks, r) ==
    IF Len(r) = 1 /\ r[1] \in DOMAIN true_kill
    THEN [ks EXCEPT ![true_kill[r[1]]] = TRUE]
    ELSE IF Len(r) = 1 /\ r[1] \in DOMAIN false_kill
         THEN [ks EXCEPT ![false_kill[r[1]]] = TRUE]
         ELSE ks

\* check_buffer, lines 101-106: the new kill_status for the string r read
apply_resp(ks, r) ==
    IF Len(r) = 1 /\ r[1] \in DOMAIN true_kill
    THEN [ks EXCEPT ![true_kill[r[1]]] = TRUE]
    ELSE IF Len(r) = 1 /\ r[1] \in DOMAIN false_kill
         THEN [ks EXCEPT ![false_kill[r[1]]] = FALSE]
         ELSE ks

\* control_cmd with 'noop' missing from the list of line 153
control_cmdNoNoop(w) ==
    IF w = "autonomous" THEN <<66, 82>>
    ELSE IF w \in {"keyboard", "rc"} THEN <<65, 81>>
    ELSE <<64, 80>>

\* control_check: (command, acknowledgement) for a control mode
control_cmd(w) ==
    IF w = "autonomous" THEN <<66, 82>>
    ELSE IF w \in {"keyboard", "rc", "noop"} THEN <<65, 81>>
    ELSE <<64, 80>>

NoReq == [write_str |-> <<>>, recv_str |-> <<>>, to |-> "none", result |-> "none", resp |-> <<>>]

\* ---------------------------------------------------------------- initial
Init ==
    /\ kill_status = [s \in Sources |-> FALSE]
    /\ killed = FALSE
    /\ network_msg = <<>>
    /\ current_wrencher = ""
    /\ lock = "free"
    /\ pc = [poll |-> "init_pub", alarm |-> "idle"]
    /\ req = [t \in Threads |-> NoReq]
    /\ ser_in = <<>>
    /\ wrote = [t \in Threads |-> <<>>]
    /\ flushes = FALSE
    /\ killstatus = <<>>
    /\ bus = <<>>
    /\ hw_kill = FALSE
    /\ now = 0
    /\ stale = "none"
    /\ alarm = <<>>
    /\ resp = <<>>

\* ------------------------------------------------------ thread_lock(lock)
\* with lock: entry
Acquire(t) ==
    /\ lock = "free"
    /\ lock' = t

\* with lock: exit
Release(t) ==
    /\ lock = t
    /\ lock' = "free"

\* --------------------------------------------------------------- get_status
\* lines 159-168: build the KillStatus message and publish it
GetStatusPublish ==
    /\ pc["poll"] \in {"init_pub", "gs_pub"}
    /\ killstatus' = <<Snapshot(kill_status)>>
    /\ pc' = [pc EXCEPT !["poll"] = IF pc["poll"] = "init_pub" THEN "init_eval" ELSE "gs_eval"]
    /\ UNCHANGED <<kill_status, killed, network_msg, current_wrencher, lock, req,
                   ser_in, wrote, flushes, bus, hw_kill, now, stale, alarm, resp>>

\* lines 171-174 with set_kill / set_unkill
GetStatusEvaluate ==
    /\ pc["poll"] \in {"init_eval", "gs_eval"}
    /\ IF AnyKill(killstatus[1])
       THEN /\ killed' = TRUE
            /\ bus' = Append(bus, <<kill_alarm, "raise">>)
            /\ hw_kill' = TRUE
       ELSE /\ killed' = FALSE
            /\ bus' = Append(bus, <<kill_alarm, "clear">>)
            /\ hw_kill' = FALSE
    /\ killstatus' = <<>>
    /\ pc' = [pc EXCEPT !["poll"] = IF pc["poll"] = "init_eval" THEN "sleep" ELSE "control"]
    /\ UNCHANGED <<kill_status, network_msg, current_wrencher, lock, req,
                   ser_in, wrote, flushes, now, stale, alarm, resp>>

\* get_status statement by statement: the message is built field by field,
\* so that other threads may run between two reads of kill_status.  While it
\* is being built killstatus is <<message, number of fields copied>>.

\* the fields of KillStatus and the kill_status keys they are copied from,
\* in the order of lines 160-166
MsgFields == <<"overall", "pf", "pa", "sf", "sa", "remote", "computer">>
MsgKeys == <<"overall", "PF", "PA", "SF", "SA", "remote", "computer">>

\* line 159: killstatus = KillStatus()
GetStatusNew ==
    /\ pc["poll"] \in {"init_pub", "gs_pub"}
    /\ killstatus = <<>>
    /\ killstatus' = <<[overall |-> FALSE, pf |-> FALSE, pa |-> FALSE, sf |-> FALSE,
                        sa |-> FALSE, remote |-> FALSE, computer |-> FALSE], 0>>
    /\ UNCHANGED <<kill_status, killed, network_msg, current_wrencher, lock, pc, req,
                   ser_in, wrote, flushes, bus, hw_kill, now, stale, alarm, resp>>

\* GetStatusCopyField with 'remote' filled from the 'computer' entry
GetStatusCopyFieldWrongKey ==
    /\ pc["poll"] \in {"init_pub", "gs_pub"}
    /\ Len(killstatus) = 2
    /\ killstatus[2] < Len(MsgFields)
    /\ LET i == killstatus[2] + 1
           k == IF MsgFields[i] = "remote" THEN "computer" ELSE MsgKeys[i]
       IN killstatus' = <<[killstatus[1] EXCEPT ![MsgFields[i]] = kill_status[k]], i>>
    /\ UNCHANGED <<kill_status, killed, network_msg, current_wrencher, lock, pc, req,
                   ser_in, wrote, flushes, bus, hw_kill, now, stale, alarm, resp>>

\* lines 160-166: the next field assignment
GetStatusCopyField ==
    /\ pc["poll"] \in {"init_pub", "gs_pub"}
    /\ Len(killstatus) = 2
    /\ killstatus[2] < Len(MsgFields)
    /\ LET i == killstatus[2] + 1
       IN killstatus' = <<[killstatus[1] EXCEPT ![MsgFields[i]] = kill_status[MsgKeys[i]]], i>>
    /\ UNCHANGED <<kill_status, killed, network_msg, current_wrencher, lock, pc, req,
                   ser_in, wrote, flushes, bus, hw_kill, now, stale, alarm, resp>>

\* line 168: self.killstatus_pub.publish(killstatus)
GetStatusSend ==
    /\ pc["poll"] \in {"init_pub", "gs_pub"}
    /\ Len(killstatus) = 2
    /\ killstatus[2] = Len(MsgFields)
    /\ killstatus' = <<killstatus[1]>>
    /\ pc' = [pc EXCEPT !["poll"] = IF pc["poll"] = "init_pub" THEN "init_eval" ELSE "gs_eval"]
    /\ UNCHANGED <<kill_status, killed, network_msg, current_wrencher, lock, req,
                   ser_in, wrote, flushes, bus, hw_kill, now, stale, alarm, resp>>

\* ---------------------------------------------------------------- poll loop
\* line 59: rospy.sleep(0.5); a new cycle starts
Sleep ==
    /\ pc["poll"] = "sleep"
    /\ pc' = [pc EXCEPT !["poll"] = "gs_pub"]
    /\ wrote' = [wrote EXCEPT !["poll"] = <<>>]
    /\ bus' = <<>>
    /\ flushes' = FALSE
    /\ stale' = "none"
    /\ req' = [req EXCEPT !["poll"] = NoReq]
    /\ UNCHANGED <<kill_status, killed, network_msg, current_wrencher, lock,
                   ser_in, killstatus, hw_kill, now, alarm, resp>>

\* ControlCheck that reports nothing while no control mode has been received
ControlCheckSkipIdle ==
    /\ pc["poll"] = "control"
    /\ IF current_wrencher = ""
       THEN /\ req' = req
            /\ pc' = [pc EXCEPT !["poll"] = "drain"]
       ELSE /\ req' = [req EXCEPT !["poll"] =
                          [write_str |-> <<control_cmd(current_wrencher)[1]>>,
                           recv_str |-> <<control_cmd(current_wrencher)[2]>>,
                           to |-> "drain", result |-> "none", resp |-> <<>>]]
            /\ pc' = [pc EXCEPT !["poll"] = "req_acq"]
    /\ UNCHANGED <<kill_status, killed, network_msg, current_wrencher, lock,
                   ser_in, wrote, flushes, killstatus, bus, hw_kill, now, stale, alarm, resp>>

\* control_check, lines 151-156: choose the command and call request
ControlCheck ==
    /\ pc["poll"] = "control"
    /\ req' = [req EXCEPT !["poll"] =
                  [write_str |-> <<control_cmd(current_wrencher)[1]>>,
                   recv_str |-> <<control_cmd(current_wrencher)[2]>>,
                   to |-> "drain", result |-> "none", resp |-> <<>>]]
    /\ pc' = [pc EXCEPT !["poll"] = "req_acq"]
    /\ UNCHANGED <<kill_status, killed, network_msg, current_wrencher, lock,
                   ser_in, wrote, flushes, killstatus, bus, hw_kill, now, stale, alarm, resp>>

\* DrainCheck that leaves the loop whatever inWaiting() returns
DrainCheckSkips ==
    /\ pc["poll"] = "drain"
    /\ pc' = [pc EXCEPT !["poll"] = "net"]
    /\ UNCHANGED <<kill_status, killed, network_msg, current_wrencher, lock, req,
                   ser_in, wrote, flushes, killstatus, bus, hw_kill, now, stale, alarm, resp>>

\* line 63: while self.ser.inWaiting() > 0
DrainCheck ==
    /\ pc["poll"] = "drain"
    /\ pc' = [pc EXCEPT !["poll"] = IF Len(ser_in) > 0 THEN "cb_acq" ELSE "net"]
    /\ UNCHANGED <<kill_status, killed, network_msg, current_wrencher, lock, req,
                   ser_in, wrote, flushes, killstatus, bus, hw_kill, now, stale, alarm, resp>>

\* NetworkCheck with the ping sent on both branches
NetworkCheckAlwaysPings ==
    /\ pc["poll"] = "net"
    /\ stale' = (IF network_kill(now, network_msg) THEN "stale" ELSE "fresh")
    /\ pc' = [pc EXCEPT !["poll"] = "req_acq"]
    /\ req' = [req EXCEPT !["poll"] =
                  [write_str |-> <<32>>, recv_str |-> <<>>,
                   to |-> "sleep", result |-> "none", resp |-> <<>>]]
    /\ UNCHANGED <<kill_status, killed, network_msg, current_wrencher, lock,
                   ser_in, wrote, flushes, killstatus, bus, hw_kill, now, alarm, resp>>

\* lines 66-69: ping unless network_kill()
NetworkCheck ==
    /\ pc["poll"] = "net"
    /\ IF network_kill(now, network_msg)
       THEN /\ stale' = "stale"
            /\ pc' = [pc EXCEPT !["poll"] = "sleep"]
            /\ req' = req
       ELSE /\ stale' = "fresh"
            /\ pc' = [pc EXCEPT !["poll"] = "req_acq"]
            /\ req' = [req EXCEPT !["poll"] =
                          [write_str |-> <<32>>, recv_str |-> <<>>,
                           to |-> "sleep", result |-> "none", resp |-> <<>>]]
    /\ UNCHANGED <<kill_status, killed, network_msg, current_wrencher, lock,
                   ser_in, wrote, flushes, killstatus, bus, hw_kill, now, alarm, resp>>

\* ------------------------------------------------------------- check_buffer
CheckBufferAcquire ==
    /\ pc["poll"] = "cb_acq"
    /\ Acquire("poll")
    /\ pc' = [pc EXCEPT !["poll"] = "cb_read"]
    /\ UNCHANGED <<kill_status, killed, network_msg, current_wrencher, req,
                   ser_in, wrote, flushes, killstatus, bus, hw_kill, now, stale, alarm, resp>>

\* lines 99-106: resp = self.ser.read(1), to_hex(resp), update kill_status
CheckBufferRead ==
    /\ pc["poll"] = "cb_read"
    /\ resp' = (IF ser_in = <<>> THEN <<>> ELSE <<Head(ser_in)>>)
    /\ ser_in' = (IF to_hex_flushes(resp') \/ ser_in = <<>> THEN <<>> ELSE Tail(ser_in))
    /\ flushes' = (flushes \/ to_hex_flushes(resp'))
    /\ kill_status' = apply_resp(kill_status, resp')
    /\ pc' = [pc EXCEPT !["poll"] = "cb_rel"]
    /\ UNCHANGED <<killed, network_msg, current_wrencher, lock, req,
                   wrote, killstatus, bus, hw_kill, now, stale, alarm>>

CheckBufferRelease ==
    /\ pc["poll"] = "cb_rel"
    /\ Release("poll")
    /\ resp' = <<>>
    /\ pc' = [pc EXCEPT !["poll"] = "drain"]
    /\ UNCHANGED <<kill_status, killed, network_msg, current_wrencher, req,
                   ser_in, wrote, flushes, killstatus, bus, hw_kill, now, stale, alarm>>

\* ------------------------------------------------------------------ request
\* request is entered with write_str and recv_str in req[t]; the statements
\* after "return True" (lines 117-134) are never executed.
\* RequestAcquire for a request that is not wrapped by thread_lock
RequestAcquireUnlocked(t) ==
    /\ pc[t] = "req_acq"
    /\ pc' = [pc EXCEPT ![t] = "req_write"]
    /\ UNCHANGED <<kill_status, killed, network_msg, current_wrencher, lock, req,
                   ser_in, wrote, flushes, killstatus, bus, hw_kill, now, stale, alarm, resp>>

\* line 108: @thread_lock(lock) on request
RequestAcquire(t) ==
    /\ pc[t] = "req_acq"
    /\ Acquire(t)
    /\ pc' = [pc EXCEPT ![t] = "req_write"]
    /\ UNCHANGED <<kill_status, killed, network_msg, current_wrencher, req,
                   ser_in, wrote, flushes, killstatus, bus, hw_kill, now, stale, alarm, resp>>

\* RequestWrite that goes on to resp = self.ser.read(1) before returning
RequestWriteReads(t) ==
    /\ pc[t] = "req_write"
    /\ wrote' = [wrote EXCEPT ![t] = @ \o req[t].write_str]
    /\ req' = [req EXCEPT ![t].result = "True",
                          ![t].resp = IF ser_in = <<>> THEN <<>> ELSE <<Head(ser_in)>>]
    /\ ser_in' = (IF ser_in = <<>> THEN <<>> ELSE Tail(ser_in))
    /\ pc' = [pc EXCEPT ![t] = "req_rel"]
    /\ UNCHANGED <<kill_status, killed, network_msg, current_wrencher, lock,
                   flushes, killstatus, bus, hw_kill, now, stale, alarm, resp>>

\* lines 115-116: self.ser.write(write_str); return True
RequestWrite(t) ==
    /\ pc[t] = "req_write"
    /\ wrote' = [wrote EXCEPT ![t] = @ \o req[t].write_str]
    /\ req' = [req EXCEPT ![t].result = "True"]
    /\ pc' = [pc EXCEPT ![t] = "req_rel"]
    /\ UNCHANGED <<kill_status, killed, network_msg, current_wrencher, lock,
                   ser_in, flushes, killstatus, bus, hw_kill, now, stale, alarm, resp>>

\* RequestRelease for a request that returns without releasing the lock
RequestReleaseKeepsLock(t) ==
    /\ pc[t] = "req_rel"
    /\ pc' = [pc EXCEPT ![t] = req[t].to]
    /\ UNCHANGED <<kill_status, killed, network_msg, current_wrencher, lock, req,
                   ser_in, wrote, flushes, killstatus, bus, hw_kill, now, stale, alarm, resp>>

\* line 116: return, leaving the "with lock" of thread_lock
RequestRelease(t) ==
    /\ pc[t] = "req_rel"
    /\ Release(t)
    /\ pc' = [pc EXCEPT ![t] = req[t].to]
    /\ UNCHANGED <<kill_status, killed, network_msg, current_wrencher, req,
                   ser_in, wrote, flushes, killstatus, bus, hw_kill, now, stale, alarm, resp>>

\* ------------------------------------------------------------ alarm_kill_cb
\* AlarmKillCb that ignores every alarm of this node, clears included
AlarmKillCbIgnoreSelf(node_name, clear) ==
    /\ pc["alarm"] = "idle"
    /\ pc["poll"] \notin {"init_pub", "init_eval"}
    /\ alarm' = <<[node_name |-> node_name, clear |-> clear]>>
    /\ wrote' = [wrote EXCEPT !["alarm"] = <<>>]
    /\ IF node_name = NodeName
       THEN /\ pc' = pc
            /\ req' = [req EXCEPT !["alarm"] = NoReq]
       ELSE /\ pc' = [pc EXCEPT !["alarm"] = "req_acq"]
            /\ req' = [req EXCEPT !["alarm"] =
                          [write_str |-> IF ~clear THEN <<69>> ELSE <<70>>,
                           recv_str |-> <<>>, to |-> "idle",
                           result |-> "none", resp |-> <<>>]]
    /\ UNCHANGED <<kill_status, killed, network_msg, current_wrencher, lock,
                   ser_in, flushes, killstatus, bus, hw_kill, now, stale, resp>>

\* AlarmKillCb that also mirrors a received raise with set_kill()
AlarmKillCbSetsKill(node_name, clear) ==
    /\ pc["alarm"] = "idle"
    /\ pc["poll"] \notin {"init_pub", "init_eval"}
    /\ alarm' = <<[node_name |-> node_name, clear |-> clear]>>
    /\ wrote' = [wrote EXCEPT !["alarm"] = <<>>]
    /\ IF node_name = NodeName /\ ~clear
       THEN /\ pc' = pc
            /\ req' = [req EXCEPT !["alarm"] = NoReq]
            /\ UNCHANGED <<killed, bus, hw_kill>>
       ELSE /\ pc' = [pc EXCEPT !["alarm"] = "req_acq"]
            /\ req' = [req EXCEPT !["alarm"] =
                          [write_str |-> IF ~clear THEN <<69>> ELSE <<70>>,
                           recv_str |-> <<>>, to |-> "idle",
                           result |-> "none", resp |-> <<>>]]
            /\ IF ~clear
               THEN /\ killed' = TRUE
                    /\ bus' = Append(bus, <<kill_alarm, "raise">>)
                    /\ hw_kill' = TRUE
               ELSE UNCHANGED <<killed, bus, hw_kill>>
    /\ UNCHANGED <<kill_status, network_msg, current_wrencher, lock,
                   ser_in, flushes, killstatus, now, stale, resp>>

\* lines 136-146, up to the call of request
AlarmKillCb(node_name, clear) ==
    /\ pc["alarm"] = "idle"
    /\ pc["poll"] \notin {"init_pub", "init_eval"}
    /\ alarm' = <<[node_name |-> node_name, clear |-> clear]>>
    /\ wrote' = [wrote EXCEPT !["alarm"] = <<>>]
    /\ IF node_name = NodeName /\ ~clear
       THEN /\ pc' = pc
            /\ req' = [req EXCEPT !["alarm"] = NoReq]
       ELSE /\ pc' = [pc EXCEPT !["alarm"] = "req_acq"]
            /\ req' = [req EXCEPT !["alarm"] =
                          [write_str |-> IF ~clear THEN <<69>> ELSE <<70>>,
                           recv_str |-> <<>>, to |-> "idle",
                           result |-> "none", resp |-> <<>>]]
    /\ UNCHANGED <<kill_status, killed, network_msg, current_wrencher, lock,
                   ser_in, flushes, killstatus, bus, hw_kill, now, stale, resp>>

\* ------------------------------------------------------- subscriber callbacks
\* update_network, line 33
UpdateNetwork(stamp) ==
    /\ network_msg' = <<stamp>>
    /\ UNCHANGED <<kill_status, killed, current_wrencher, lock, pc, req,
                   ser_in, wrote, flushes, killstatus, bus, hw_kill, now, stale, alarm, resp>>

\* _set_wrencher, line 53
SetWrencher(w) ==
    /\ pc["poll"] \notin {"init_pub", "init_eval"}
    /\ current_wrencher' = w
    /\ UNCHANGED <<kill_status, killed, network_msg, lock, pc, req,
                   ser_in, wrote, flushes, killstatus, bus, hw_kill, now, stale, alarm, resp>>

\* -------------------------------------------------------------- environment
\* the board puts one byte into the serial input buffer
BoardSend(b) ==
    /\ Len(ser_in) < MaxIn
    /\ ser_in' = Append(ser_in, b)
    /\ UNCHANGED <<kill_status, killed, network_msg, current_wrencher, lock, pc, req,
                   wrote, flushes, killstatus, bus, hw_kill, now, stale, alarm, resp>>

\* the board puts one byte into a serial input buffer of capacity MaxQueue
BoardQueue(b) ==
    /\ Len(ser_in) < MaxQueue
    /\ ser_in' = Append(ser_in, b)
    /\ UNCHANGED <<kill_status, killed, network_msg, current_wrencher, lock, pc, req,
                   wrote, flushes, killstatus, bus, hw_kill, now, stale, alarm, resp>>

\* the board sends its next byte once the previous one has been read
BoardSendNext(b) ==
    /\ ser_in = <<>>
    /\ BoardSend(b)

\* the clock advances
Tick ==
    /\ now < MaxTime
    /\ now' = now + 1
    /\ UNCHANGED <<kill_status, killed, network_msg, current_wrencher, lock, pc, req,
                   ser_in, wrote, flushes, killstatus, bus, hw_kill, stale, alarm, resp>>

\* The node with every callback running beside the poll loop.
Next ==
    \/ GetStatusPublish
    \/ GetStatusEvaluate
    \/ Sleep
    \/ ControlCheck
    \/ DrainCheck
    \/ NetworkCheck
    \/ CheckBufferAcquire
    \/ CheckBufferRead
    \/ CheckBufferRelease
    \/ \E t \in Threads : RequestAcquire(t)
    \/ \E t \in Threads : RequestWrite(t)
    \/ \E t \in Threads : RequestRelease(t)
    \/ \E n \in {NodeName, OtherNode}, c \in BOOLEAN : AlarmKillCb(n, c)
    \/ \E stamp \in 0..now : UpdateNetwork(stamp)
    \/ \E w \in Wrenchers : SetWrencher(w)
    \/ \E b \in BoardBytes : BoardSend(b)
    \/ Tick

Spec == Init /\ [][Next]_vars

\* The poll loop with the board sending any byte, one at a time; no alarm,
\* heartbeat or control mode arrives.
NextSerial ==
    \/ GetStatusPublish
    \/ GetStatusEvaluate
    \/ Sleep
    \/ ControlCheck
    \/ DrainCheck
    \/ NetworkCheck
    \/ CheckBufferAcquire
    \/ CheckBufferRead
    \/ CheckBufferRelease
    \/ RequestAcquire("poll")
    \/ RequestWrite("poll")
    \/ RequestRelease("poll")
    \/ \E b \in AllBytes : BoardSendNext(b)

SpecSerial == Init /\ [][NextSerial]_vars

\* The node with get_status run statement by statement beside the callbacks
\* (the clock stands still).
NextCopy ==
    \/ GetStatusNew
    \/ GetStatusCopyField
    \/ GetStatusSend
    \/ GetStatusEvaluate
    \/ Sleep
    \/ ControlCheck
    \/ DrainCheck
    \/ NetworkCheck
    \/ CheckBufferAcquire
    \/ CheckBufferRead
    \/ CheckBufferRelease
    \/ \E t \in Threads : RequestAcquire(t)
    \/ \E t \in Threads : RequestWrite(t)
    \/ \E t \in Threads : RequestRelease(t)
    \/ \E n \in {NodeName, OtherNode}, c \in BOOLEAN : AlarmKillCb(n, c)
    \/ UpdateNetwork(now)
    \/ \E w \in Wrenchers : SetWrencher(w)
    \/ \E b \in BoardBytes : BoardSend(b)

SpecCopy == Init /\ [][NextCopy]_vars

\* The poll loop with any control mode published and the board sending one
\* byte at a time; no alarm and no heartbeat arrives.
NextControl ==
    \/ GetStatusPublish
    \/ GetStatusEvaluate
    \/ Sleep
    \/ ControlCheck
    \/ DrainCheck
    \/ NetworkCheck
    \/ CheckBufferAcquire
    \/ CheckBufferRead
    \/ CheckBufferRelease
    \/ RequestAcquire("poll")
    \/ RequestWrite("poll")
    \/ RequestRelease("poll")
    \/ \E w \in AllWrenchers : SetWrencher(w)
    \/ \E b \in BoardBytes : BoardSendNext(b)

SpecControl == Init /\ [][NextControl]_vars

\* The poll loop and the alarm callback with the board queueing bytes; no
\* heartbeat or control mode arrives and the clock stands still.
NextFair ==
    \/ GetStatusPublish
    \/ GetStatusEvaluate
    \/ Sleep
    \/ ControlCheck
    \/ DrainCheck
    \/ NetworkCheck
    \/ CheckBufferAcquire
    \/ CheckBufferRead
    \/ CheckBufferRelease
    \/ \E t \in Threads : RequestAcquire(t)
    \/ \E t \in Threads : RequestWrite(t)
    \/ \E t \in Threads : RequestRelease(t)
    \/ \E n \in {NodeName, OtherNode}, c \in BOOLEAN : AlarmKillCb(n, c)
    \/ \E b \in BoardBytes : BoardQueue(b)

\* The steps of a thread that do not wait for the lock.
PollRun ==
    \/ GetStatusPublish
    \/ GetStatusEvaluate
    \/ Sleep
    \/ ControlCheck
    \/ DrainCheck
    \/ NetworkCheck
    \/ CheckBufferRead
    \/ CheckBufferRelease
    \/ RequestWrite("poll")
    \/ RequestRelease("poll")

AlarmRun ==
    \/ RequestWrite("alarm")
    \/ RequestRelease("alarm")

\* Scheduling: a thread that can run does run (weak fairness of its steps),
\* and a thread waiting for the lock gets it if the lock is free again and
\* again (strong fairness of the acquisitions).  The board and the alarm bus
\* are under no obligation to send anything.
SpecFair ==
    /\ Init
    /\ [][NextFair]_vars
    /\ WF_vars(PollRun)
    /\ WF_vars(AlarmRun)
    /\ SF_vars(CheckBufferAcquire)
    /\ SF_vars(RequestAcquire("poll"))
    /\ SF_vars(RequestAcquire("alarm"))

\* --------------------------------------------------------------- properties

TypeOK ==
    /\ kill_status \in [Sources -> BOOLEAN]
    /\ killed \in BOOLEAN
    /\ lock \in {"free"} \cup Threads
    /\ Len(ser_in) <= (IF MaxQueue > MaxIn THEN MaxQueue ELSE MaxIn)
    /\ now \in 0..MaxTime

\* The five sources that drive the aggregate kill decision.
FiveSources == {"PF", "PA", "SF", "SA", "remote"}

AnyOfFive == \E s \in FiveSources : kill_status[s]

\* The bytes a thread wrote in its current cycle / callback, as a set.
Written(t) == {wrote[t][i] : i \in 1..Len(wrote[t])}

\* Positions at which a thread is inside check_buffer or request.
InTransport == {"cb_read", "cb_rel", "req_write", "req_rel"}

\* C1: right after each evaluation of get_status in the poll loop, the hw_kill
\* alarm is raised (killed = TRUE) exactly when at least one of PF, PA, SF,
\* SA, remote is true in kill_status, and cleared otherwise, whatever the
\* values of 'overall' and 'computer'.
C1_KillIffAnyOfFive ==
    pc["poll"] = "control" =>
        /\ killed <=> AnyOfFive
        /\ hw_kill = killed
        /\ bus = << <<"hw_kill", IF AnyOfFive THEN "raise" ELSE "clear">> >>

\* C1 witness: an evaluation has run with overall and computer asserted and
\* none of the five sources asserted.
C1_Witness ==
    /\ pc["poll"] = "control"
    /\ kill_status["overall"] /\ kill_status["computer"]
    /\ ~AnyOfFive
    /\ ~killed

\* C2 (as claimed): an evaluation in the poll loop that leaves the hw_kill
\* alarm in the state it already had makes no raise_alarm / clear_alarm call.
C2_EvaluateIdempotent ==
    [][(pc["poll"] = "gs_eval" /\ pc'["poll"] = "control" /\ hw_kill' = hw_kill)
          => bus' = bus]_vars

\* C3 (as claimed): while no heartbeat has been received the watchdog never
\* reports "not stale" and the ping byte 0x20 is never written.
C3_NoHeartbeatIsStale ==
    network_msg = <<>> => (stale # "fresh" /\ 32 \notin Written("poll"))

\* C4 (as claimed): a request that names an acknowledgement byte returns True
\* only after that byte has been read from the transport.
C4_SuccessOnlyAfterAck ==
    \A t \in Threads :
        (req[t].result = "True" /\ req[t].recv_str # <<>>)
            => req[t].resp = req[t].recv_str

\* C5: a thread is inside check_buffer or request only while it holds the
\* lock, so the poll loop and the alarm callback are never inside them at the
\* same time, and the alarm callback writes only when the poll loop is outside.
C5_TransportMutualExclusion ==
    /\ \A t \in Threads : pc[t] \in InTransport => lock = t
    /\ ~(pc["poll"] \in InTransport /\ pc["alarm"] \in InTransport)
    /\ pc["alarm"] = "req_write" => pc["poll"] \notin InTransport

\* C5 witness: the alarm callback holds the lock and is about to write while
\* the poll loop waits to enter check_buffer or request.
C5_Witness ==
    /\ pc["alarm"] = "req_write"
    /\ lock = "alarm"
    /\ pc["poll"] \in {"cb_acq", "req_acq"}

\* C6: when alarm_kill_cb has returned, it has written nothing for a raise
\* from this node, exactly 0x45 for a raise from another node, and exactly
\* 0x46 for a clear from any node; before it returns it has written nothing
\* or just that byte.
C6_AlarmCallbackBytes ==
    alarm # <<>> =>
        LET expected == IF alarm[1].clear THEN <<70>>
                        ELSE IF alarm[1].node_name = NodeName THEN <<>>
                        ELSE <<69>>
        IN /\ pc["alarm"] = "idle" => wrote["alarm"] = expected
           /\ wrote["alarm"] \in {<<>>, expected}

\* C6 witness: a clear from this node has been handled and 0x46 written.
C6_Witness ==
    /\ pc["alarm"] = "idle"
    /\ alarm = <<[node_name |-> NodeName, clear |-> TRUE]>>
    /\ wrote["alarm"] = <<70>>

\* C7: no re-raise loop.  A handled foreign raise has written 0x45; no step
\* of the alarm callback changes kill_status, killed, the hw_kill alarm or
\* the poll loop's output; with only 'computer' asserted an evaluation leaves
\* hw_kill clear; the node makes no call on the 'kill' alarm and the poll
\* loop never writes 0x45.
C7_NoReRaiseLoop ==
    /\ [](/\ (pc["alarm"] = "idle" /\ alarm = <<[node_name |-> OtherNode, clear |-> FALSE]>>)
               => wrote["alarm"] = <<69>>
          /\ 69 \notin Written("poll")
          /\ \A i \in 1..Len(bus) : bus[i][1] # "kill"
          /\ (pc["poll"] = "control" /\ kill_status["computer"] /\ ~AnyOfFive)
               => (~killed /\ ~hw_kill))
    /\ [][(pc'["alarm"] # pc["alarm"] \/ alarm' # alarm)
             => (/\ UNCHANGED <<kill_status, killed, hw_kill, bus>>
                 /\ wrote'["poll"] = wrote["poll"])]_vars

\* C7 witness: a foreign raise was handled (0x45 written), the board has
\* reported computer-kill, and the evaluation after it left hw_kill clear.
C7_Witness ==
    /\ pc["alarm"] = "idle"
    /\ alarm = <<[node_name |-> OtherNode, clear |-> FALSE]>>
    /\ wrote["alarm"] = <<69>>
    /\ kill_status["computer"]
    /\ pc["poll"] = "control"
    /\ ~killed

\* C8: a check_buffer read of anything but a status opcode 0x10..0x1D (also
\* of the empty string) leaves kill_status unchanged, and the poll loop goes
\* on to leave check_buffer.
C8_UnknownByteIgnored ==
    [][(pc["poll"] = "cb_read" /\ pc'["poll"] # "cb_read"
          /\ (ser_in = <<>> \/ Head(ser_in) \notin 16..29))
          => (/\ kill_status' = kill_status
              /\ apply_resp(kill_status, <<>>) = kill_status
              /\ pc'["poll"] = "cb_rel"
              /\ lock' = "poll")]_vars

\* C8 witness: check_buffer has read the acknowledgement byte 0x51 while PF
\* and computer were asserted.
C8_Witness ==
    /\ pc["poll"] = "cb_rel"
    /\ resp = <<81>>
    /\ kill_status["PF"] /\ kill_status["computer"]

\* C9: with a heartbeat stamped T stored, the watchdog evaluated at time now
\* reports "not stale" when now <= T + timeout and "stale" when
\* now > T + timeout, T being the stamp stored last.
C9_WatchdogThreshold ==
    [][(pc["poll"] = "net" /\ pc'["poll"] # "net" /\ network_msg # <<>>)
          => (IF now <= network_msg[1] + timeout
              THEN stale' = "fresh"
              ELSE stale' = "stale")]_vars

\* C9 witness: the watchdog has reported stale with the heartbeat stamped 0
\* stored and the clock just past the threshold.
C9_Witness ==
    /\ stale = "stale"
    /\ network_msg = <<0>>
    /\ now = timeout + 1

\* C10: in a cycle where the watchdog reported stale no ping is written and
\* the cycle ends there; before the watchdog is asked no ping is written; a
\* finished cycle where it reported "not stale" wrote exactly one ping, after
\* the control command; and in either case the only alarm call of the cycle
\* is the one of the evaluation, which follows the five sources.
C10_StaleSkipsPing ==
    /\ stale = "stale" => (32 \notin Written("poll") /\ pc["poll"] = "sleep")
    /\ stale = "none" => 32 \notin Written("poll")
    /\ (stale = "fresh" /\ pc["poll"] = "sleep")
          => (/\ Len(wrote["poll"]) = 2
              /\ wrote["poll"][1] # 32
              /\ wrote["poll"][2] = 32)
    /\ stale # "none" => (Len(bus) = 1 /\ hw_kill = killed)
    /\ pc["poll"] = "control"
          => bus = << <<"hw_kill", IF AnyOfFive THEN "raise" ELSE "clear">> >>

\* C10 witness: a cycle ended with the watchdog stale, only the control
\* command written, and the hw_kill alarm clear.
C10_Witness ==
    /\ stale = "stale"
    /\ pc["poll"] = "sleep"
    /\ Len(wrote["poll"]) = 1
    /\ ~killed
    /\ bus = << <<"hw_kill", "clear">> >>

\* The seven sources in the order of their opcode pairs 0x10/0x11 .. 0x1C/0x1D.
SourceOrder == <<"overall", "PF", "PA", "SF", "SA", "remote", "computer">>

\* The source and the value a status opcode b in 0x10..0x1D stands for.
OpcodeSource(b) == SourceOrder[((b - 16) \div 2) + 1]
OpcodeValue(b) == (b % 2 = 0)

\* C11: every entry of kill_status starts false; a check_buffer read of a
\* status opcode sets the entry of that opcode's source to the opcode's value
\* and leaves the other six entries alone; no other step changes kill_status.
\* So each entry is the value of the last opcode decoded for its source.
C11_LastOpcodeWins ==
    /\ \A s \in Sources : kill_status[s] = FALSE
    /\ [][IF /\ pc["poll"] = "cb_read" /\ pc'["poll"] = "cb_rel"
             /\ ser_in # <<>> /\ Head(ser_in) \in 16..29
          THEN kill_status' = [kill_status EXCEPT
                                  ![OpcodeSource(Head(ser_in))] = OpcodeValue(Head(ser_in))]
          ELSE kill_status' = kill_status]_vars

\* C11 witness: the hw_kill alarm is still raised from an earlier evaluation
\* and check_buffer has just read set-false for PF, leaving none of the five
\* sources asserted.
C11_Witness ==
    /\ pc["poll"] = "cb_rel"
    /\ resp = <<19>>
    /\ killed
    /\ ~AnyOfFive

\* C12: every field get_status has copied, and every field of the message it
\* publishes, equals the kill_status entry it is copied from as it is now,
\* and kill_status does not change from the creation of the message to the
\* evaluation: the published message is kill_status at one point in time.
C12_SnapshotConsistent ==
    /\ [](killstatus # <<>> =>
            \A i \in 1..(IF Len(killstatus) = 2 THEN killstatus[2] ELSE Len(MsgFields)) :
                killstatus[1][MsgFields[i]] = kill_status[SourceOrder[i]])
    /\ [][killstatus # <<>> => kill_status' = kill_status]_vars

\* C12 witness: a message with PF and computer asserted and remote clear has
\* been published while the alarm callback is inside request.
C12_Witness ==
    /\ pc["poll"] = "gs_eval"
    /\ Len(killstatus) = 1
    /\ killstatus[1].pf /\ killstatus[1].computer /\ ~killstatus[1].remote
    /\ pc["alarm"] = "req_write"

\* The command and acknowledgement bytes of a control mode string.
ModeBytes(w) ==
    CASE w = "autonomous" -> <<66, 82>>
      [] w \in {"keyboard", "rc", "noop"} -> <<65, 81>>
      [] OTHER -> <<64, 80>>

CommandBytes == {32, 48, 64, 65, 66, 80, 81, 82, 69, 70}

\* C14: the set-true table holds exactly the even bytes of 0x10..0x1D and the
\* set-false table exactly the odd ones, so no byte is in both; the pair
\* 0x10+2k / 0x11+2k names the k-th of overall, PF, PA, SF, SA, remote,
\* computer and the seven pairs cover the seven sources; a status byte just
\* decoded has set exactly the entry and value it stands for; and no status
\* byte is a command or acknowledgement byte, nor is one ever written or
\* expected by request.
C14_OpcodeTable ==
    /\ (DOMAIN true_kill) \cap (DOMAIN false_kill) = {}
    /\ DOMAIN true_kill = {b \in 16..29 : b % 2 = 0}
    /\ DOMAIN false_kill = {b \in 16..29 : b % 2 = 1}
    /\ \A b \in DOMAIN true_kill : true_kill[b] = OpcodeSource(b)
    /\ \A b \in DOMAIN false_kill : false_kill[b] = OpcodeSource(b)
    /\ {OpcodeSource(b) : b \in 16..29} = Sources
    /\ Len(SourceOrder) = Cardinality(Sources)
    /\ CommandBytes \cap (16..29) = {}
    /\ \A t \in Threads :
          /\ Written(t) \subseteq CommandBytes
          /\ \A i \in 1..Len(req[t].write_str) : req[t].write_str[i] \in CommandBytes
          /\ \A i \in 1..Len(req[t].recv_str) : req[t].recv_str[i] \in CommandBytes
    /\ (pc["poll"] = "cb_rel" /\ resp # <<>> /\ resp[1] \in 16..29)
          => kill_status[OpcodeSource(resp[1])] = OpcodeValue(resp[1])

\* C14 witness: check_buffer has decoded 0x1C as computer set-true while the
\* alarm callback's last write was the command byte 0x45.
C14_Witness ==
    /\ pc["poll"] = "cb_rel"
    /\ resp = <<28>>
    /\ kill_status["computer"]
    /\ wrote["alarm"] = <<69>>

\* The step of the poll cycle a position belongs to: 1 publish and evaluate,
\* 2 report the control mode, 3 drain, 4 ping or log; 0 between cycles (and
\* in the constructor's first get_status).
CycleStep(p, to) ==
    CASE p \in {"gs_pub", "gs_eval"} -> 1
      [] p = "control" -> 2
      [] p \in {"req_acq", "req_write", "req_rel"} /\ to = "drain" -> 2
      [] p \in {"drain", "cb_acq", "cb_read", "cb_rel"} -> 3
      [] p = "net" -> 4
      [] p \in {"req_acq", "req_write", "req_rel"} /\ to = "sleep" -> 4
      [] OTHER -> 0

ControlBytes == {64, 65, 66}

\* C15: the poll loop moves from each step of the cycle only to the next one
\* (1 publish/evaluate, 2 control command, 3 drain, 4 ping or log, then the
\* next cycle); what has been done so far in the cycle matches the step (one
\* alarm evaluation from step 2 on, the control byte written before step 3,
\* no watchdog result before step 4, and at the end a ping after the control
\* byte or a logged network kill); the drain is left only when nothing is
\* pending; and kill_status does not change between publish and evaluation.
C15_CycleOrder ==
    /\ [](LET k == CycleStep(pc["poll"], req["poll"].to)
          IN /\ k = 1 => (wrote["poll"] = <<>> /\ stale = "none" /\ bus = <<>>)
             /\ k \in {2, 3, 4} => Len(bus) = 1
             /\ k = 2 => (stale = "none" /\ Len(wrote["poll"]) <= 1)
             /\ (k = 3 \/ pc["poll"] = "net")
                   => (/\ stale = "none"
                       /\ Len(wrote["poll"]) = 1
                       /\ wrote["poll"][1] \in ControlBytes)
             /\ (k = 4 /\ pc["poll"] # "net") => stale = "fresh"
             /\ (pc["poll"] = "sleep" /\ stale = "stale")
                   => (Len(wrote["poll"]) = 1 /\ wrote["poll"][1] \in ControlBytes)
             /\ (pc["poll"] = "sleep" /\ stale = "fresh")
                   => (/\ Len(wrote["poll"]) = 2
                       /\ wrote["poll"][1] \in ControlBytes
                       /\ wrote["poll"][2] = 32))
    /\ [][LET k == CycleStep(pc["poll"], req["poll"].to)
              n == CycleStep(pc'["poll"], req'["poll"].to)
          IN /\ n \in {k, (k + 1) % 5}
             /\ (pc["poll"] = "drain" /\ pc'["poll"] = "net") => ser_in = <<>>
             /\ (pc["poll"] = "drain" /\ pc'["poll"] = "cb_acq") => ser_in # <<>>
             /\ pc["poll"] = "gs_eval" => kill_status' = kill_status]_vars

\* C15 witness: a cycle has ended with the control byte and then the ping
\* written, after a PF set-true was drained following the evaluation.
C15_Witness ==
    /\ pc["poll"] = "sleep"
    /\ stale = "fresh"
    /\ wrote["poll"] = <<66, 32>>
    /\ kill_status["PF"]
    /\ ~killed

\* C16: in every poll cycle exactly one control-mode command byte is written:
\* none before control_check's request writes, one from then to the end of
\* the cycle, whether or not the watchdog is stale and whatever the mode was
\* in the cycle before.
C16_ControlEveryCycle ==
    LET n == Cardinality({i \in 1..Len(wrote["poll"]) : wrote["poll"][i] \in ControlBytes})
        k == CycleStep(pc["poll"], req["poll"].to)
    IN /\ n <= 1
       /\ k \in {3, 4} => n = 1
       /\ (k = 2 /\ pc["poll"] = "req_rel") => n = 1
       /\ (pc["poll"] = "sleep" /\ stale # "none") => n = 1
       /\ (k = 1 \/ pc["poll"] \in {"control", "init_pub", "init_eval"}) => n = 0

\* C16 witness: a cycle in which the watchdog was stale has ended with the
\* command 0x42 for the unchanged mode 'autonomous' written.
C16_Witness ==
    /\ pc["poll"] = "sleep"
    /\ stale = "stale"
    /\ wrote["poll"] = <<66>>
    /\ current_wrencher = "autonomous"

\* C18: every evaluation of the poll loop sets killed, and the hw_kill alarm,
\* to whether one of the five sources is asserted at that moment, raising the
\* alarm if so; an asserted entry of the five is cleared only by check_buffer
\* reading that source's set-false opcode; and killed changes only in an
\* evaluation.  So a drained set-true that is not followed by a set-false
\* shows at the next cycle's evaluation and at every later one, and not
\* before.
C18_KillAtNextEvaluation ==
    [][/\ (pc["poll"] = "gs_eval" /\ pc'["poll"] = "control")
            => (/\ killed' = AnyOfFive
                /\ hw_kill' = killed'
                /\ AnyOfFive => bus' = << <<"hw_kill", "raise">> >>)
       /\ \A s \in FiveSources :
            (kill_status[s] /\ ~kill_status'[s])
               => (/\ pc["poll"] = "cb_read"
                   /\ ser_in # <<>>
                   /\ Head(ser_in) \in 16..29
                   /\ OpcodeSource(Head(ser_in)) = s
                   /\ ~OpcodeValue(Head(ser_in)))
       /\ killed' # killed => pc["poll"] \in {"gs_eval", "init_eval"}]_vars

\* C18 witness: PF was drained as asserted and the evaluation that followed
\* has raised the alarm.
C18_Witness ==
    /\ pc["poll"] = "control"
    /\ kill_status["PF"]
    /\ killed
    /\ bus = << <<"hw_kill", "raise">> >>

\* C18, the lag: PF has been drained as asserted in this cycle and the alarm
\* is not raised yet.
C18_Lag ==
    /\ pc["poll"] = "cb_rel"
    /\ resp = <<18>>
    /\ kill_status["PF"]
    /\ ~killed

\* C17 (as claimed): every poll cycle that starts reaches its ping /
\* network-kill step.
C17_DrainTerminates ==
    (pc["poll"] = "gs_pub") ~> (pc["poll"] = "net")

\* Positions of the poll loop between two cycles (the sleep and its wake-up).
CycleBoundary == {"sleep", "gs_pub"}

\* Positions at which a thread waits for the lock.
AtAcquire == {"cb_acq", "req_acq"}

\* C19 (as claimed): the lock is free at every poll-cycle boundary.
C19_LockFreeAtBoundary ==
    pc["poll"] \in CycleBoundary => lock = "free"

\* C19 (amended): the lock never deadlocks.  A thread holds the lock only
\* while it is inside check_buffer or request, so a thread that waits for the
\* lock never holds it already (no nested acquisition) and a thread that has
\* left either method has released it; hence the poll loop never holds the
\* lock at a poll-cycle boundary (the alarm callback may hold it there), and
\* a pending alarm callback eventually acquires the lock, writes its byte and
\* returns.
C19_LockNeverDeadlocks ==
    /\ [] (\A t \in Threads : lock = t <=> pc[t] \in InTransport)
    /\ [] (\A t \in Threads : pc[t] \in AtAcquire => lock # t)
    /\ [] (pc["poll"] \in CycleBoundary => lock # "poll")
    /\ [][\A t \in Threads :
            (pc[t] \in InTransport /\ pc'[t] \notin InTransport) =>
                (lock = t /\ lock' = "free")]_vars
    /\ (pc["alarm"] = "req_acq") ~>
           (pc["alarm"] = "req_rel" /\ lock = "alarm"
              /\ wrote["alarm"] = req["alarm"].write_str
              /\ wrote["alarm"] \in {<<69>>, <<70>>})
    /\ (pc["alarm"] = "req_acq") ~> (pc["alarm"] = "idle")

\* The alarm callback has written its byte under the lock while the poll
\* loop is at a cycle boundary.
C19_Witness ==
    /\ pc["poll"] \in CycleBoundary
    /\ pc["alarm"] = "req_rel"
    /\ lock = "alarm"
    /\ wrote["alarm"] = <<69>>

====
